---- MODULE Spec2Model ----
(***************************************************************************)
(* satUSD liquidity monitor (src/monitor.py): the command dispatch, the    *)
(* extraction retry loop of get_liquidity_from_page, the poll              *)
(* check_and_notify, the heartbeat send_heartbeat and the runner           *)
(* run_continuous, as one sequential state machine.  Time is counted in    *)
(* whole hours.  The browser, the page and the Telegram transport are the  *)
(* environment: their outcomes are drawn nondeterministically, and so is  *)
(* the external interrupt.  The pure function parse_liquidity_value, which *)
(* the program calls nowhere, has a specification of its own, SpecParse.   *)
(***************************************************************************)
EXTENDS Integers, Sequences, FiniteSets, TLC

\* ------------------------------------------------------------------ bounds
\* The clock stops the run: no sleep ends after MaxClock hours.
MaxClock == 120

\* Hours the runner's clock advances over one inter-cycle sleep
\* (check_interval plus the time the cycle itself took).
SleepHours == {24, 48}

\* Longest text, in characters, handed to parse_liquidity_value (the
\* examples of its docstring are added to the inputs whatever their length).
MaxLen == 3

\* --------------------------------------------------------- program constants
\* monitor.py:37
max_failures_before_alert == 3
\* monitor.py:38
heartbeat_interval_hours == 72
\* config.example.py:17
liquidity_threshold == 100
\* monitor.py:183, send_telegram_message(message, retry_count=3)
send_retry_count == 3
\* monitor.py:258, check_and_notify calls get_liquidity_from_page(retry_count=3)
poll_retry_count == 3
\* monitor.py:363, test_connection calls get_liquidity_from_page(retry_count=2)
test_retry_count == 2

\* Python's None for the optional numbers (readings and times are >= 0).
None == -1

\* Readings the page can show: below, equal to, and above the threshold.
Readings ==
  {liquidity_threshold - 1, liquidity_threshold,
   liquidity_threshold + 1, liquidity_threshold + 2}

VARIABLES
  cmd,                         \* sys.argv[1]: "test", "once" or "run", or
                               \* "noarg" when no argument was given
  notify_on_change_only,       \* MONITOR_CONFIG['notify_on_change_only']
  pc,                          \* position of the single thread of control
  now,                         \* datetime.now(), in hours
  last_state_above_threshold,  \* "None", "False" or "True"
  consecutive_failures,
  last_heartbeat,              \* None or a time
  last_success_time,           \* None or a time
  retry_count,                 \* get_liquidity_from_page: its parameter
  attempt,                     \* get_liquidity_from_page: the loop index
  browser,                     \* the local `browser`: "None", "open", "closed"
  sessions,                    \* number of browser sessions open
  ret,                         \* value a `return` inside the try is carrying
  last_error,                  \* "none", "notfound", "timeout", "error"
  liquidity,                   \* the value get_liquidity_from_page returned
  fetch_log,                   \* outcome of each attempt of the current call
  sent,                        \* messages whose send was made in this cycle
  poll,                        \* this cycle's check_and_notify: "none",
                               \* "failed", "succeeded" or "aborted"
  caught,                      \* the runner's except clause ran this cycle
  cf_start,                    \* consecutive_failures when the cycle began
  scen,                        \* progress through below(t-1), above(t+1), above(t+2)
  scen_alerts,                 \* threshold alerts sent by the polls of scen
  streak,                      \* failed polls in a row since the counter was 0,
                               \* None once an error aborted a poll of the run
  streak_alerts,               \* failure alerts sent by the polls of streak
  interrupted,                 \* a KeyboardInterrupt was delivered in the step
                               \* just taken
  hb_calls,                    \* calls of send_heartbeat made in this cycle
  dump,                        \* the debug dump of the attempt whose page work
                               \* just ended: "none", "written" or "failed"
  above_run,                   \* change-only mode, since the last reading
                               \* recorded as not above: the threshold-alert
                               \* sends made, whether one of them was not
                               \* delivered, whether a poll failed after one
  text,                        \* parse_liquidity_value: its argument, a
                               \* sequence of characters
  parsed                       \* parse_liquidity_value: what it returned

config == <<cmd, notify_on_change_only>>
monitor == <<last_state_above_threshold, consecutive_failures, last_heartbeat,
             last_success_time>>
extract == <<retry_count, attempt, browser, sessions, ret, last_error,
             fetch_log>>
observer == <<sent, poll, caught, cf_start, scen, scen_alerts, streak,
              streak_alerts>>
parser == <<text, parsed>>
vars == <<config, pc, now, monitor, extract, liquidity, observer,
          interrupted, hb_calls, dump, above_run, parser>>

TypeOK ==
  /\ cmd \in {"test", "once", "run", "noarg"}
  /\ notify_on_change_only \in BOOLEAN
  /\ pc \in {"main", "startup", "check", "attempt", "launch", "page",
             "finally", "decide", "heartbeat", "sleep", "test_send", "done",
             "crashed", "killed"}
  /\ now \in 0..(MaxClock + 1)
  /\ last_state_above_threshold \in {"None", "False", "True"}
  /\ consecutive_failures \in Nat
  /\ last_heartbeat \in {None} \cup 0..(MaxClock + 1)
  /\ last_success_time \in {None} \cup 0..(MaxClock + 1)
  /\ retry_count \in 0..poll_retry_count
  /\ attempt \in 0..poll_retry_count
  /\ browser \in {"None", "open", "closed"}
  /\ sessions \in Nat
  /\ ret \in {None} \cup Readings
  /\ last_error \in {"none", "notfound", "timeout", "error"}
  /\ liquidity \in {None} \cup Readings
  /\ fetch_log \in Seq({"ok", "fail"})
  /\ sent \in Seq([kind : {"startup", "threshold", "failure", "heartbeat",
                           "test"}, fails : 0..send_retry_count,
                    tries : 1..send_retry_count, ok : BOOLEAN])
  /\ poll \in {"none", "failed", "succeeded", "aborted"}
  /\ caught \in BOOLEAN
  /\ cf_start \in Nat
  /\ scen \in 0..3
  /\ scen_alerts \in 0..2
  /\ streak \in {None} \cup Nat
  /\ streak_alerts \in Nat
  /\ interrupted \in BOOLEAN
  /\ hb_calls \in Nat
  /\ dump \in {"none", "written", "failed"}
  /\ above_run \in [alerts : Nat, undelivered : BOOLEAN, failed : BOOLEAN]
  /\ text \in Seq(STRING)
  /\ parsed \in [tag : {"unset", "None", "float"}, n : Nat, e : Int]

\* No alert yet in the current run of readings above the threshold.
NoRun == [alerts |-> 0, undelivered |-> FALSE, failed |-> FALSE]

\* SatUSDMonitor.__init__ and the start of the process.
InitMonitor ==
  /\ cmd \in {"test", "once", "run", "noarg"}
  /\ notify_on_change_only \in BOOLEAN
  /\ pc = "main"
  /\ now = 0
  /\ last_state_above_threshold = "None"
  /\ consecutive_failures = 0
  /\ last_heartbeat = None
  /\ last_success_time = None
  /\ retry_count = 0
  /\ attempt = 0
  /\ browser = "None"
  /\ sessions = 0
  /\ ret = None
  /\ last_error = "none"
  /\ liquidity = None
  /\ fetch_log = <<>>
  /\ sent = <<>>
  /\ poll = "none"
  /\ caught = FALSE
  /\ cf_start = 0
  /\ scen = 0
  /\ scen_alerts = 0
  /\ streak = 0
  /\ streak_alerts = 0
  /\ interrupted = FALSE
  /\ hb_calls = 0
  /\ dump = "none"
  /\ above_run = NoRun

\* ----------------------------------------------------------- the value parser
\* Characters the inputs are built from: the currency sign and the thousands
\* separator, a blank, the point, two digits, the six suffix letters and a
\* letter that is no suffix.
Alphabet ==
  {"$", ",", " ", ".", "0", "5", "K", "k", "M", "m", "B", "b", "a"}

Digits == {"0", "1", "2", "3", "4", "5", "6", "7", "8", "9"}

DigitVal(c) ==
  CASE c = "0" -> 0 [] c = "1" -> 1 [] c = "2" -> 2 [] c = "3" -> 3
    [] c = "4" -> 4 [] c = "5" -> 5 [] c = "6" -> 6 [] c = "7" -> 7
    [] c = "8" -> 8 [] c = "9" -> 9

\* The argument None, kept apart from every string.
NoText == <<"None">>

\* The docstring's examples (47-52) and two texts without a number.
Examples ==
  {<<"$", "2", "0", ".", "3", "9">>, <<"1", ".", "5", "K">>,
   <<"2", ".", "3", "M">>, <<"2", "0", ".", "4", "0", " ", "a">>,
   <<"a", "b", "c">>}

Texts ==
  UNION {[1..n -> Alphabet] : n \in 0..MaxLen} \cup Examples \cup {NoText}

\* What the parser returns: None, or a float.  The float n / 10^e is kept
\* exactly, with n not divisible by 10 (e is negative for 1500 = 15 / 10^-2);
\* the products the parser forms from the inputs above are exact in binary
\* floating point as well.
Unset == [tag |-> "unset", n |-> 0, e |-> 0]
Null == [tag |-> "None", n |-> 0, e |-> 0]

RECURSIVE Float(_, _)
Float(n, e) ==
  IF n = 0 THEN [tag |-> "float", n |-> 0, e |-> 0]
  ELSE IF n % 10 = 0 THEN Float(n \div 10, e - 1)
  ELSE [tag |-> "float", n |-> n, e |-> e]

\* str.replace(c, '') (57).
replace(s, c) == SelectSeq(s, LAMBDA x : x # c)

\* str.strip() (57).
RECURSIVE lstrip(_)
lstrip(s) == IF s # <<>> /\ Head(s) = " " THEN lstrip(Tail(s)) ELSE s

RECURSIVE rstrip(_)
rstrip(s) ==
  IF s # <<>> /\ s[Len(s)] = " " THEN rstrip(SubSeq(s, 1, Len(s) - 1)) ELSE s

strip(s) == rstrip(lstrip(s))

endswith(s, c) == s # <<>> /\ s[Len(s)] = c

\* Mutant of multiplier: only the upper-case suffixes are known.
multiplier_upper_only(s) ==
  IF endswith(s, "K") THEN 3
  ELSE IF endswith(s, "M") THEN 6
  ELSE IF endswith(s, "B") THEN 9
  ELSE 0

\* 60-69: the power of ten the suffix stands for (0 for multiplier = 1).
multiplier(s) ==
  IF endswith(s, "K") \/ endswith(s, "k") THEN 3
  ELSE IF endswith(s, "M") \/ endswith(s, "m") THEN 6
  ELSE IF endswith(s, "B") \/ endswith(s, "b") THEN 9
  ELSE 0

\* re.search(r'[\d.]+', text).group() (72): the leftmost run of digits and
\* points, as long as it can be; <<>> when there is no match.
RECURSIVE run_prefix(_)
run_prefix(s) ==
  IF s # <<>> /\ Head(s) \in Digits \cup {"."}
    THEN <<Head(s)>> \o run_prefix(Tail(s))
    ELSE <<>>

RECURSIVE re_search(_)
re_search(s) ==
  IF s = <<>> THEN <<>>
  ELSE IF Head(s) \in Digits \cup {"."} THEN run_prefix(s)
  ELSE re_search(Tail(s))

RECURSIVE int_of(_)
int_of(ds) ==
  IF ds = <<>> THEN 0
  ELSE int_of(SubSeq(ds, 1, Len(ds) - 1)) * 10 + DigitVal(ds[Len(ds)])

\* float(run) (75): a run of digits and points converts unless it has two
\* points or no digit (ValueError).
float_raises(run) ==
  \/ Len(run) - Len(replace(run, ".")) > 1
  \/ replace(run, ".") = <<>>

float(run) ==
  LET point == {i \in DOMAIN run : run[i] = "."}
      scale == IF point = {} THEN 0 ELSE Len(run) - (CHOOSE i \in point : TRUE)
  IN Float(int_of(replace(run, ".")), scale)

\* parse_liquidity_value (45-78).
parse_liquidity_value(t) ==
  IF t = NoText \/ t = <<>> THEN Null
  ELSE LET stripped == strip(replace(replace(t, "$"), ","))
           k == multiplier(stripped)
           body == IF k > 0
                     THEN SubSeq(stripped, 1, Len(stripped) - 1)
                     ELSE stripped
           match == re_search(body)
       IN IF match = <<>> THEN Null
          ELSE IF float_raises(match) THEN Null
          ELSE LET v == float(match) IN Float(v.n, v.e - k)

\* One call of the parser.
Parse ==
  /\ parsed = Unset
  /\ parsed' = parse_liquidity_value(text)
  /\ UNCHANGED <<text, config, pc, now, monitor, extract, liquidity, observer,
                 interrupted, hb_calls, dump, above_run>>

Init ==
  /\ InitMonitor
  /\ text = <<>>
  /\ parsed = Unset

\* The parser on its own: any text, one call.
InitParse ==
  /\ InitMonitor
  /\ cmd = "once"
  /\ ~notify_on_change_only
  /\ text \in Texts
  /\ parsed = Unset

NextParse == Parse

SpecParse == InitParse /\ [][NextParse]_vars

\* ------------------------------------------------------------- the notifier
\* send_telegram_message (183-203): `fails` is the number of delivery attempts
\* the transport refuses before it accepts one; the call returns True at the
\* first accepted attempt and False when all retry_count attempts failed.
send_telegram_message(fails) == fails < send_retry_count

\* Mutant of send_attempts: the loop does not stop at the accepted attempt.
send_attempts_no_return(fails) == send_retry_count

\* The number of requests.post calls the loop of 192-201 makes: it returns at
\* the first accepted attempt, else it runs through range(retry_count).
send_attempts(fails) ==
  IF fails < send_retry_count THEN fails + 1 ELSE send_retry_count

\* What the transport can do to one call: refuse 0, 1, 2 or all attempts.
Transport == 0..send_retry_count

\* One call of send_telegram_message as the cycle's log keeps it: the kind of
\* message, the refusals the transport had in store, the requests made and
\* the value returned.
Msg(kind, fails) ==
  [kind |-> kind, fails |-> fails, tries |-> send_attempts(fails),
   ok |-> send_telegram_message(fails)]

\* ---------------------------------------------------- the runner's handlers
\* An exception that escapes the work of a cycle.  Under `run` the except
\* clause of run_continuous (340-343) logs it and adds 1 to
\* consecutive_failures (whose current value is cf), and the loop goes on to
\* its sleep; under `once` nothing catches it and the process dies.
Escapes(cf) ==
  IF cmd = "run"
    THEN /\ consecutive_failures' = cf + 1
         /\ caught' = TRUE
         /\ pc' = "sleep"
    ELSE /\ consecutive_failures' = cf
         /\ caught' = caught
         /\ pc' = "crashed"

\* Where control goes when check_and_notify returns: the heartbeat check of
\* run_continuous (336), or the end of run_once (313).
AfterPoll == IF cmd = "run" THEN "heartbeat" ELSE "done"

\* Where control goes when get_liquidity_from_page returns: test_connection
\* (364) or check_and_notify (260).
AfterExtract == IF cmd = "test" THEN "test_send" ELSE "decide"

\* ------------------------------------------------------------ the dispatch
\* __main__ (382-403): `test` runs test_connection, whose first step is
\* get_liquidity_from_page(retry_count=2); `once` runs one check_and_notify;
\* `run` runs run_continuous; with no argument one check_and_notify runs, as
\* under `once`.
Main ==
  /\ interrupted' = FALSE
  /\ UNCHANGED <<hb_calls, dump, above_run>>
  /\ pc = "main"
  /\ IF cmd = "test"
       THEN /\ pc' = "attempt"
            /\ retry_count' = test_retry_count
       ELSE /\ pc' = IF cmd = "run" THEN "startup" ELSE "check"
            /\ retry_count' = retry_count
  /\ UNCHANGED <<parser, config, now, monitor, attempt, browser, sessions, ret,
                 last_error, fetch_log, liquidity, observer>>

\* run_continuous (317-331): the startup notice, sent before the loop and
\* outside its try.  An exception other than requests.RequestException is not
\* caught by send_telegram_message and ends the process.
Startup ==
  /\ interrupted' = FALSE
  /\ UNCHANGED <<hb_calls, dump, above_run>>
  /\ pc = "startup"
  /\ \/ \E f \in Transport :
          /\ sent' = Append(sent, Msg("startup", f))
          /\ pc' = "check"
     \/ /\ sent' = sent
        /\ pc' = "crashed"
  /\ UNCHANGED <<parser, config, now, monitor, extract, liquidity, poll, caught,
                 cf_start, scen, scen_alerts, streak, streak_alerts>>

\* --------------------------------------------------- get_liquidity_from_page
\* check_and_notify (254-258): the banner is logged and the extraction is
\* called with retry_count=3.  The banner's print can raise.
CheckStart ==
  /\ interrupted' = FALSE
  /\ UNCHANGED <<hb_calls, dump, above_run>>
  /\ pc = "check"
  /\ \/ /\ pc' = "attempt"
        /\ retry_count' = poll_retry_count
        /\ attempt' = 0
        /\ last_error' = "none"
        /\ fetch_log' = <<>>
        /\ UNCHANGED <<monitor, poll, caught, streak, scen>>
     \/ /\ Escapes(consecutive_failures)
        /\ poll' = "aborted"
        /\ streak' = None
        /\ scen' = 0
        /\ UNCHANGED <<last_state_above_threshold, last_heartbeat,
                       last_success_time, retry_count, attempt, last_error,
                       fetch_log>>
  /\ UNCHANGED <<parser, config, now, browser, sessions, ret, liquidity, sent,
                 cf_start, scen_alerts, streak_alerts>>

\* Mutant of range: the loop bound off by one, one attempt too many.
range_inclusive(n) == 0..n

\* range(retry_count) (87): the attempts the loop makes.
range(n) == 0..(n - 1)

\* The head of the for loop (87-92) and the exit below it (180-181): another
\* attempt starts with browser = None, or the call returns None.
ForLoop ==
  /\ interrupted' = FALSE
  /\ UNCHANGED <<hb_calls, dump, above_run>>
  /\ pc = "attempt"
  /\ IF attempt \in range(retry_count)
       THEN /\ browser' = "None"
            /\ pc' = "launch"
            /\ liquidity' = liquidity
       ELSE /\ liquidity' = None
            /\ pc' = AfterExtract
            /\ browser' = browser
  /\ UNCHANGED <<parser, config, now, monitor, retry_count, attempt, sessions, ret,
                 last_error, fetch_log, observer>>

\* sync_playwright() and p.chromium.launch (96-98): the session opens and
\* `browser` is bound, or the launch raises with `browser` still None and the
\* except clause (168-171) records the error.
Launch ==
  /\ interrupted' = FALSE
  /\ UNCHANGED <<hb_calls, dump, above_run>>
  /\ pc = "launch"
  /\ \/ /\ browser' = "open"
        /\ sessions' = sessions + 1
        /\ pc' = "page"
        /\ last_error' = last_error
     \/ /\ last_error' = "error"
        /\ pc' = "finally"
        /\ UNCHANGED <<browser, sessions>>
  /\ UNCHANGED <<parser, config, now, monitor, retry_count, attempt, ret, fetch_log,
                 liquidity, observer>>

\* browser.close(): the session of this attempt ends; closing twice is
\* harmless (the second close raises or does nothing, and 177 swallows it).
Closed(n) == IF browser = "open" THEN n - 1 ELSE n

\* Mutant of DumpOutcomes: the dump step can be left out.
DumpSkippable == {"written", "failed", "none"}

\* 153-160: page.content() is written to debug_page.html, or the try around
\* the write catches an error of page.content(), open or write, logs it and
\* goes on.
DumpOutcomes == {"written", "failed"}

\* The page work of one attempt (99-171), up to the point where control
\* enters the finally clause.
\*   found:    a row yields a value by heuristic 1 (135-140) or 2 (143-150);
\*             browser.close() runs and `return` carries the value.
\*   notfound: no row yields a value (152-163); the dump of the page is
\*             tried, browser.close() runs, last_error is set.
\*   timeout:  PlaywrightTimeout (165-167); the session is still open.
\*   error:    any other exception (168-171); the session is still open.
Page ==
  /\ interrupted' = FALSE
  /\ UNCHANGED <<hb_calls, above_run>>
  /\ pc = "page"
  /\ \/ \E r \in Readings :
          /\ ret' = r
          /\ sessions' = Closed(sessions)
          /\ browser' = "closed"
          /\ last_error' = last_error
          /\ dump' = "none"
     \/ /\ ret' = None
        /\ sessions' = Closed(sessions)
        /\ browser' = "closed"
        /\ last_error' = "notfound"
        /\ dump' \in DumpOutcomes
     \/ \E e \in {"timeout", "error"} :
          /\ ret' = None
          /\ last_error' = e
          /\ dump' = "none"
          /\ UNCHANGED <<browser, sessions>>
  /\ pc' = "finally"
  /\ UNCHANGED <<parser, config, now, monitor, retry_count, attempt, fetch_log,
                 liquidity, observer>>

\* Mutant of FinallyClose: a finally clause that does not close the browser.
FinallyNoClose(n) == n

\* finally (172-178): `if browser: browser.close()`.
FinallyClose(n) == IF browser # "None" THEN Closed(n) ELSE n

\* The finally clause (172-178) and what follows it: the pending return
\* completes, or the loop goes to its next index.  A KeyboardInterrupt
\* delivered while browser.close() of 176 runs is caught by the bare `except:`
\* of 177 and dropped by its `pass`: the clause ends as if nothing had come.
Finally ==
  /\ pc = "finally"
  /\ interrupted' \in (IF browser # "None" THEN BOOLEAN ELSE {FALSE})
  /\ dump' = "none"
  /\ UNCHANGED <<hb_calls, above_run>>
  /\ sessions' = FinallyClose(sessions)
  /\ browser' = IF browser = "None" THEN "None" ELSE "closed"
  /\ IF ret # None
       THEN /\ liquidity' = ret
            /\ fetch_log' = Append(fetch_log, "ok")
            /\ pc' = AfterExtract
            /\ attempt' = attempt
       ELSE /\ liquidity' = liquidity
            /\ fetch_log' = Append(fetch_log, "fail")
            /\ pc' = "attempt"
            /\ attempt' = attempt + 1
  /\ ret' = None
  /\ UNCHANGED <<parser, config, now, monitor, retry_count, last_error, observer>>

\* ---------------------------------------------------------- check_and_notify
\* The locals of get_liquidity_from_page go out of scope once its caller has
\* taken the returned value.
ExtractDone ==
  /\ retry_count' = 0
  /\ attempt' = 0
  /\ browser' = "None"
  /\ ret' = None
  /\ last_error' = "none"
  /\ fetch_log' = <<>>
  /\ sessions' = sessions

\* 265-272: the failure alert is sent when the counter equals the alert
\* threshold or is a later multiple of it.
failure_alert_due(cf) ==
  /\ cf >= max_failures_before_alert
  /\ \/ cf = max_failures_before_alert
     \/ cf % max_failures_before_alert = 0

\* Mutant of is_above_threshold: the comparison not strict.
is_above_or_equal(r) == r >= liquidity_threshold

\* 284: is_above_threshold = liquidity > self.config['liquidity_threshold'].
is_above_threshold(r) == r > liquidity_threshold

\* Mutant of should_notify: the recorded state is not consulted.
should_notify_ignoring_last(above, change_only, last) == above

\* Mutant of should_notify: the rising edge is required in both modes.
should_notify_edge_only(above, change_only, last) ==
  above /\ (last = "False" \/ last = "None")

\* 286-297: the notification gate.
should_notify(above, change_only, last) ==
  IF above
    THEN IF change_only THEN last = "False" \/ last = "None" ELSE TRUE
    ELSE FALSE

\* Python's True/False/None as stored in last_state_above_threshold.
Tri(b) == IF b THEN "True" ELSE "False"

\* Mutant of state_to_store: the state is recorded only by a poll that
\* notifies.
state_stored_on_notify(above, notify, last) ==
  IF notify THEN Tri(above) ELSE last

\* 299: self.last_state_above_threshold = is_above_threshold, on every path
\* through 284-297.
state_to_store(above, notify, last) == Tri(above)

\* The observer of the sequence below(t-1), above(t+1), above(t+2) of
\* consecutive completed polls: its progress after a poll that read r and sent
\* n threshold alerts.
ScenStep(r, n) ==
  IF scen = 1 /\ r = liquidity_threshold + 1
    THEN /\ scen' = 2
         /\ scen_alerts' = n
    ELSE IF scen = 2 /\ r = liquidity_threshold + 2
      THEN /\ scen' = 3
           /\ scen_alerts' = scen_alerts + n
      ELSE /\ scen' = IF r = liquidity_threshold - 1 THEN 1 ELSE 0
           /\ scen_alerts' = 0

ScenReset ==
  /\ scen' = 0
  /\ scen_alerts' = 0

\* Mutant of FailurePathKeeps: a failed poll makes the recorded state unknown.
FailurePathForgetsState ==
  /\ last_state_above_threshold' = "None"
  /\ UNCHANGED <<last_heartbeat, last_success_time>>

\* 260-275 assign to no field of the monitor but consecutive_failures.
FailurePathKeeps ==
  UNCHANGED <<last_state_above_threshold, last_heartbeat, last_success_time>>

\* check_and_notify when the extraction returned None (260-275).  The counter
\* grows by 1, a failure alert is sent when due (send_failure_alert, 215-225,
\* ignores what the send returns), and the poll returns False.  An unexpected
\* error can escape after the increment: "early" before the alert (the log of
\* 262), "late" after it (the log of 274).
CheckFailed ==
  /\ interrupted' = FALSE
  /\ UNCHANGED <<hb_calls, dump>>
  /\ pc = "decide"
  /\ liquidity = None
  /\ LET cf == consecutive_failures + 1
         due == failure_alert_due(cf)
     IN \E e \in {"none", "early", "late"}, f \in Transport :
          /\ sent' = IF due /\ e # "early"
                       THEN Append(sent, Msg("failure", f))
                       ELSE sent
          /\ above_run' =
               IF e = "none" /\ above_run.alerts > 0
                 THEN [above_run EXCEPT !.failed = TRUE]
                 ELSE above_run
          /\ IF e = "none"
               THEN /\ consecutive_failures' = cf
                    /\ pc' = AfterPoll
                    /\ caught' = caught
                    /\ poll' = "failed"
                    /\ streak' = IF streak = None THEN None ELSE streak + 1
                    /\ streak_alerts' =
                         IF streak = None THEN 0
                         ELSE streak_alerts + (IF due THEN 1 ELSE 0)
               ELSE /\ Escapes(cf)
                    /\ poll' = "aborted"
                    /\ streak' = None
                    /\ streak_alerts' = 0
  /\ ScenReset
  /\ ExtractDone
  /\ FailurePathKeeps
  /\ UNCHANGED <<parser, config, now, liquidity, cf_start>>

\* check_and_notify when the extraction returned a value (277-309).  The
\* counter is reset, the time of success recorded, the state compared with the
\* threshold and stored, and the alert sent when the gate says so (the result
\* of the send is ignored).  An unexpected error can escape "early" (the log
\* of 281, before the comparison), "mid" (the log of 302, after the state was
\* stored and before the send) or "late" (the log of 308, after the send).
CheckSucceeded ==
  /\ interrupted' = FALSE
  /\ UNCHANGED <<hb_calls, dump>>
  /\ pc = "decide"
  /\ liquidity # None
  /\ LET above == is_above_threshold(liquidity)
         notify == should_notify(above, notify_on_change_only,
                                 last_state_above_threshold)
     IN \E e \in {"none", "early", "mid", "late"}, f \in Transport :
          /\ last_success_time' = now
          /\ last_state_above_threshold' =
               IF e = "early"
                 THEN last_state_above_threshold
                 ELSE state_to_store(above, notify, last_state_above_threshold)
          /\ sent' = IF notify /\ e \in {"none", "late"}
                       THEN Append(sent, Msg("threshold", f))
                       ELSE sent
          /\ above_run' =
               IF e = "early" \/ ~notify_on_change_only THEN above_run
               ELSE IF ~above THEN NoRun
               ELSE IF notify /\ e \in {"none", "late"}
                 THEN [above_run EXCEPT
                         !.alerts = @ + 1,
                         !.undelivered = @ \/ ~send_telegram_message(f)]
               ELSE above_run
          /\ IF e = "none"
               THEN /\ consecutive_failures' = 0
                    /\ pc' = AfterPoll
                    /\ caught' = caught
                    /\ poll' = "succeeded"
                    /\ streak' = 0
                    /\ ScenStep(liquidity, IF notify THEN 1 ELSE 0)
               ELSE /\ Escapes(0)
                    /\ poll' = "aborted"
                    /\ streak' = None
                    /\ ScenReset
          /\ streak_alerts' = 0
  /\ ExtractDone
  /\ UNCHANGED <<parser, config, now, last_heartbeat, liquidity, cf_start>>

\* ------------------------------------------------------------ send_heartbeat
\* Mutant of heartbeat_due: the interval must be exceeded, not reached.
heartbeat_due_strict(t, last) == t - last > heartbeat_interval_hours

\* 237-238: (now - self.last_heartbeat).total_seconds() / 3600 >= 72.
heartbeat_due(t, last) == t - last >= heartbeat_interval_hours

\* Mutant of baseline_after_send: the baseline moves whatever the send
\* returned.
baseline_always_moved(ok, t, last) == t

\* 248-249: the baseline after a heartbeat send that returned ok.
baseline_after_send(ok, t, last) == IF ok THEN t ELSE last

\* send_heartbeat (227-250), called by run_continuous after the poll (336).
\* The first call records the baseline; a later call sends when the interval
\* has elapsed and moves the baseline when the send returned True.  An
\* unexpected error can escape from inside the send (an exception that is no
\* requests.RequestException, or the log of 199), with the baseline unmoved,
\* or from the log after the baseline moved (250).
Heartbeat ==
  /\ interrupted' = FALSE
  /\ UNCHANGED <<dump, above_run>>
  /\ pc = "heartbeat"
  /\ hb_calls' = hb_calls + 1
  /\ IF last_heartbeat = None
       THEN /\ last_heartbeat' = now
            /\ pc' = "sleep"
            /\ UNCHANGED <<consecutive_failures, sent, caught>>
       ELSE IF heartbeat_due(now, last_heartbeat)
         THEN \/ \E f \in Transport :
                   /\ sent' = Append(sent, Msg("heartbeat", f))
                   /\ last_heartbeat' =
                        baseline_after_send(send_telegram_message(f), now,
                                            last_heartbeat)
                   /\ \/ /\ pc' = "sleep"
                         /\ UNCHANGED <<consecutive_failures, caught>>
                      \/ /\ send_telegram_message(f)
                         /\ Escapes(consecutive_failures)
              \/ /\ sent' = Append(sent, Msg("heartbeat", send_retry_count))
                 /\ Escapes(consecutive_failures)
                 /\ UNCHANGED last_heartbeat
         ELSE /\ pc' = "sleep"
              /\ UNCHANGED <<last_heartbeat, consecutive_failures, sent,
                             caught>>
  /\ UNCHANGED <<parser, config, now, last_state_above_threshold, last_success_time,
                 extract, liquidity, poll, cf_start, scen, scen_alerts,
                 streak, streak_alerts>>

\* ------------------------------------------------------------ run_continuous
\* time.sleep(check_interval) (345-347) and the top of the next iteration of
\* `while True`: the clock advances and a new cycle begins.
Sleep ==
  /\ interrupted' = FALSE
  /\ UNCHANGED <<dump, above_run>>
  /\ pc = "sleep"
  /\ \E d \in SleepHours :
       /\ now + d <= MaxClock
       /\ now' = now + d
  /\ pc' = "check"
  /\ liquidity' = None
  /\ sent' = <<>>
  /\ poll' = "none"
  /\ caught' = FALSE
  /\ cf_start' = consecutive_failures
  /\ hb_calls' = 0
  /\ UNCHANGED <<parser, config, monitor, extract, scen, scen_alerts, streak,
                 streak_alerts>>

\* ----------------------------------------------------------- test_connection
\* test_connection (371-379): after the extraction, one test message is sent.
TestSend ==
  /\ interrupted' = FALSE
  /\ UNCHANGED <<hb_calls, dump, above_run>>
  /\ pc = "test_send"
  /\ \/ \E f \in Transport :
          /\ sent' = Append(sent, Msg("test", f))
          /\ pc' = "done"
     \/ /\ sent' = sent
        /\ pc' = "crashed"
  /\ ExtractDone
  /\ UNCHANGED <<parser, config, now, monitor, liquidity, poll, caught, cf_start,
                 scen, scen_alerts, streak, streak_alerts>>

\* ------------------------------------------------------ the external interrupt
\* The positions of run_continuous whose KeyboardInterrupt is caught: the work
\* step inside the try (335-339) and the sleep (346-350).
InterruptCaught ==
  {"check", "attempt", "launch", "page", "finally", "decide", "heartbeat",
   "sleep"}

\* A KeyboardInterrupt delivered anywhere but inside the browser.close() of
\* the finally clause.  It is no Exception, so 165-171 and 340 let it pass;
\* the stack unwinds (the finally clause of an attempt in progress closes the
\* session), and run_continuous catches it at 337 or 348, logs and breaks:
\* the process ends normally.  Before the loop, and under `once` and `test`,
\* nothing catches it and the process is killed.
Interrupt ==
  /\ pc \notin {"done", "crashed", "killed"}
  /\ interrupted' = TRUE
  /\ pc' = IF cmd = "run" /\ pc \in InterruptCaught THEN "done" ELSE "killed"
  /\ sessions' = IF pc \in {"page", "finally"}
                   THEN FinallyClose(sessions)
                   ELSE sessions
  /\ retry_count' = 0
  /\ attempt' = 0
  /\ browser' = "None"
  /\ ret' = None
  /\ last_error' = "none"
  /\ fetch_log' = <<>>
  /\ dump' = "none"
  /\ UNCHANGED <<parser, config, now, monitor, liquidity, observer, hb_calls,
                 above_run>>

\* ------------------------------------------------------- the process outcome
\* __main__ (382-403) drops what run_once, run_continuous and test_connection
\* return and calls no sys.exit: the exit status is 0 when the dispatch
\* returns, and 1 when an exception or an interrupt was not caught; None
\* while the process runs.
exit_status ==
  IF pc = "done" THEN 0
  ELSE IF pc \in {"crashed", "killed"} THEN 1
  ELSE None

Next ==
  \/ Main
  \/ Startup
  \/ CheckStart
  \/ ForLoop
  \/ Launch
  \/ Page
  \/ Finally
  \/ CheckFailed
  \/ CheckSucceeded
  \/ Heartbeat
  \/ Sleep
  \/ TestSend
  \/ Interrupt

Spec == Init /\ [][Next]_vars

\* ===================================================================== claims
\* Number of messages of a kind in a cycle's log.
CountIn(s, kind) == Cardinality({i \in DOMAIN s : s[i].kind = kind})

\* A step in which check_and_notify, having read a value, returns True.
PollReturnsTrue == pc = "decide" /\ liquidity # None /\ poll' = "succeeded"

\* C1: with notify_on_change_only = true, a successful poll whose reading is
\* strictly above the threshold sends a threshold alert if and only if the
\* state recorded before the poll was unknown or below; and the polls
\* below(t-1), above(t+1), above(t+2) send exactly one alert, on the first
\* poll above.
C1_ChangeOnlyRisingEdge ==
  /\ [][(PollReturnsTrue /\ notify_on_change_only
           /\ liquidity > liquidity_threshold)
          => CountIn(sent', "threshold") - CountIn(sent, "threshold")
               = (IF last_state_above_threshold \in {"None", "False"}
                    THEN 1 ELSE 0)]_vars
  /\ [](notify_on_change_only /\ scen \in {2, 3} => scen_alerts = 1)

C1_Witness ==
  /\ notify_on_change_only
  /\ scen = 3
  /\ scen_alerts = 1
  /\ poll = "succeeded"
  /\ CountIn(sent, "threshold") = 0

\* C2: starting from consecutive_failures = 0, after k failed polls in a row
\* exactly floor(k / 3) failure alerts have been sent, and a poll that
\* succeeded leaves the counter at 0 when it returns.
C2_FailureStreakAlerts ==
  /\ streak # None => streak_alerts = streak \div max_failures_before_alert
  /\ (poll = "succeeded" /\ pc \in {"heartbeat", "done"})
       => consecutive_failures = 0

\* C3: over one cycle consecutive_failures grows by exactly 1 when the poll
\* failed and is 0 when the poll succeeded, and no cycle raises it by more
\* than 1, cycles with an error caught by the runner included.
C3_CounterPerCycle ==
  pc \in {"sleep", "done"} =>
    /\ poll = "succeeded" => consecutive_failures = 0
    /\ poll = "failed" => consecutive_failures = cf_start + 1
    /\ consecutive_failures <= cf_start + 1

\* C4: in continuous mode a cycle that brings consecutive_failures to 3 or to
\* a later multiple of 3 sends a failure alert in that cycle, whether the
\* cycle failed by a null extraction or by an error the runner caught.
C4_AlertAtEveryMultiple ==
  (cmd = "run" /\ pc = "sleep") =>
    \A v \in (cf_start + 1)..consecutive_failures :
      v % max_failures_before_alert = 0 => CountIn(sent, "failure") >= 1

\* C5: a successful poll records is_above = (r > t), strictly, and sends no
\* threshold alert when r <= t, in either mode and from any previous state.
C5_StrictComparison ==
  poll = "succeeded" =>
    /\ last_state_above_threshold = Tri(liquidity > liquidity_threshold)
    /\ liquidity <= liquidity_threshold => CountIn(sent, "threshold") = 0

C5_Witness ==
  /\ poll = "succeeded"
  /\ liquidity = liquidity_threshold
  /\ last_state_above_threshold = "False"
  /\ CountIn(sent, "threshold") = 0

\* C6: with notify_on_change_only = false, every successful poll that reads
\* above the threshold sends exactly one threshold alert; the polls
\* below(t-1), above(t+1), above(t+2) send two.
C6_AlwaysNotify ==
  ~notify_on_change_only =>
    /\ (poll = "succeeded" /\ liquidity > liquidity_threshold)
         => CountIn(sent, "threshold") = 1
    /\ scen = 2 => scen_alerts = 1
    /\ scen = 3 => scen_alerts = 2

C6_Witness ==
  /\ ~notify_on_change_only
  /\ scen = 3
  /\ scen_alerts = 2
  /\ poll = "succeeded"
  /\ CountIn(sent, "threshold") = 1

\* C7: the first heartbeat check records the baseline and sends nothing;
\* every later check makes a heartbeat send if and only if at least 72 hours
\* have passed since the baseline (a check cut short by an external
\* interrupt aside).
C7_HeartbeatTiming ==
  [][(pc = "heartbeat" /\ ~interrupted') =>
       IF last_heartbeat = None
         THEN /\ last_heartbeat' = now
              /\ sent' = sent
         ELSE CountIn(sent', "heartbeat") - CountIn(sent, "heartbeat")
                = (IF now - last_heartbeat >= 72 THEN 1 ELSE 0)]_vars

C7_Witness ==
  /\ pc = "sleep"
  /\ CountIn(sent, "heartbeat") = 1
  /\ last_heartbeat = now
  /\ now = 72

\* C8: a due heartbeat whose send succeeds moves the baseline to the time of
\* the call, so that none is due right after it; one whose send fails leaves
\* the baseline where it was, the heartbeat stays due until the next check,
\* and that check makes the send again.
C8_HeartbeatBaseline ==
  /\ [][(pc = "heartbeat" /\ last_heartbeat # None
           /\ Len(sent') = Len(sent) + 1)
          => IF sent'[Len(sent')].ok
               THEN /\ last_heartbeat' = now
                    /\ now' - last_heartbeat' < 72
               ELSE /\ last_heartbeat' = last_heartbeat
                    /\ now' - last_heartbeat' >= 72]_vars
  /\ [][(pc # "heartbeat" /\ last_heartbeat # None
           /\ now - last_heartbeat >= 72)
          => now' - last_heartbeat' >= 72]_vars
  /\ [][(pc = "heartbeat" /\ last_heartbeat # None /\ ~interrupted'
           /\ now - last_heartbeat >= 72)
          => CountIn(sent', "heartbeat") = 1]_vars

C8_Witness ==
  /\ pc = "sleep"
  /\ CountIn(sent, "heartbeat") = 1
  /\ ~sent[Len(sent)].ok
  /\ now - last_heartbeat > 72

\* C9: get_liquidity_from_page(retry_count = n) never makes more than n
\* attempts, stops at the first attempt that yields a value and returns it,
\* and returns None only after exactly n failed attempts.
C9_ExtractionRetry ==
  /\ pc \in {"attempt", "launch", "page", "finally", "decide", "test_send"}
       => /\ Len(fetch_log) <= retry_count
          /\ \A i \in 1..(Len(fetch_log) - 1) : fetch_log[i] = "fail"
  /\ pc \in {"decide", "test_send"} =>
       IF liquidity = None
         THEN /\ Len(fetch_log) = retry_count
              /\ \A i \in DOMAIN fetch_log : fetch_log[i] = "fail"
         ELSE /\ Len(fetch_log) >= 1
              /\ fetch_log[Len(fetch_log)] = "ok"

C9_Witness ==
  /\ pc = "decide"
  /\ fetch_log = <<"fail", "fail", "ok">>
  /\ liquidity = liquidity_threshold + 1

\* C10: a browser session opened by an attempt is closed before the attempt
\* ends, on every exit path: at most one session is open at any time, and
\* none when an attempt starts or when get_liquidity_from_page has returned.
C10_SessionReleased ==
  /\ sessions <= 1
  /\ pc \notin {"page", "finally"} => sessions = 0

C10_Witness ==
  /\ pc = "attempt"
  /\ attempt = 1
  /\ last_error = "timeout"
  /\ browser = "closed"
  /\ sessions = 0

\* C11: no error ends continuous mode: an error raised while the startup
\* notice is sent, during a poll, during the heartbeat check or while a
\* message is sent is contained, and run_continuous is only ever left on an
\* external interrupt; under `run` the process never dies of an error.
C11_NoErrorEndsRun == cmd = "run" => pc # "crashed"

C13_InterruptEndsLoop == (cmd = "run" /\ interrupted) => pc \in {"done", "killed"}

\* C14: single-shot mode (`once` and the no-argument default) runs exactly one
\* poll and no heartbeat check, and the outcome of the process is the boolean
\* result of that poll: the process ends with success exactly when the poll
\* returned true, so that a failed poll can be told from a successful one.
C14_SingleShotOutcome ==
  (cmd \in {"once", "noarg"} /\ pc = "done") =>
    /\ poll \in {"failed", "succeeded"}
    /\ last_heartbeat = None
    /\ CountIn(sent, "heartbeat") = 0
    /\ exit_status = 0 <=> poll = "succeeded"

\* The first run of digits and points of a text: it starts at the first such
\* character and ends before the first character after it that is neither.
FirstRunOf(c) ==
  LET R == {i \in DOMAIN c : c[i] \in Digits \cup {"."}}
  IN IF R = {} THEN <<>>
     ELSE LET i == CHOOSE x \in R : \A y \in R : x <= y
              j == CHOOSE x \in i..Len(c) :
                     /\ \A y \in i..x : y \in R
                     /\ x + 1 \notin R
          IN SubSeq(c, i, j)

\* The power of ten of the suffix a text ends with, blanks at the end aside.
SuffixPowerOf(c) ==
  LET N == {i \in DOMAIN c : c[i] # " "}
      last == IF N = {} THEN " " ELSE c[CHOOSE x \in N : \A y \in N : y <= x]
  IN CASE last \in {"K", "k"} -> 3
       [] last \in {"M", "m"} -> 6
       [] last \in {"B", "b"} -> 9
       [] OTHER -> 0

\* A run of digits and points is a number when it has a digit and at most
\* one point.
ValidNumber(run) ==
  /\ \E i \in DOMAIN run : run[i] \in Digits
  /\ Cardinality({i \in DOMAIN run : run[i] = "."}) <= 1

\* What C15 says the parser returns for a text.
ParsedAsClaimed(t) ==
  IF t = NoText \/ t = <<>> THEN Null
  ELSE LET c == replace(replace(t, "$"), ",")
           run == FirstRunOf(c)
       IN IF run = <<>> \/ ~ValidNumber(run) THEN Null
          ELSE LET v == float(run) IN Float(v.n, v.e - SuffixPowerOf(c))

\* C15: parse_liquidity_value returns null for a null or empty text, for a
\* text without a run of digits and points, and for a text whose first run is
\* no valid number; otherwise it returns the value of the first run of digits
\* and points of the text with "$" and "," removed, times 10^3, 10^6 or 10^9
\* for a trailing K, M or B in either case, and times 1 without such a suffix.
\* parse("$20.39") = 20.39, parse("1.5K") = 1500, parse("2.3M") = 2300000,
\* parse("") = null and parse("abc") = null.
C15_ParseValue ==
  parsed # Unset =>
    /\ parsed = ParsedAsClaimed(text)
    /\ text = <<"$", "2", "0", ".", "3", "9">> => parsed = Float(2039, 2)
    /\ text = <<"1", ".", "5", "K">> => parsed = Float(1500, 0)
    /\ text = <<"2", ".", "3", "M">> => parsed = Float(2300000, 0)
    /\ text \in {<<>>, NoText, <<"a", "b", "c">>} => parsed = Null

\* The parser has returned 1500 for "1.5K".
C15_Witness == text = <<"1", ".", "5", "K">> /\ parsed = Float(1500, 0)

\* C16: after every successful poll the recorded state equals (reading >
\* threshold), whether or not the poll sent a notification and whether or not
\* the delivery succeeded; the recorded state moves only in the decision of a
\* poll that obtained a reading, so after any sequence of polls it reflects
\* the most recent reading that was compared.
C16_StateFollowsReading ==
  /\ [](poll = "succeeded" =>
          last_state_above_threshold =
            (IF liquidity > liquidity_threshold THEN "True" ELSE "False"))
  /\ [][last_state_above_threshold' # last_state_above_threshold
          => /\ pc = "decide"
             /\ liquidity # None
             /\ last_state_above_threshold' =
                  (IF liquidity > liquidity_threshold THEN "True" ELSE "False")]_vars

\* A poll read a value above the threshold, its alert was not delivered, and
\* the state is recorded as above all the same.
C16_Witness ==
  /\ poll = "succeeded"
  /\ pc = "heartbeat"
  /\ liquidity > liquidity_threshold
  /\ last_state_above_threshold = "True"
  /\ \E i \in DOMAIN sent : sent[i].kind = "threshold" /\ ~sent[i].ok

\* C17: in continuous mode send_heartbeat is called exactly once in every
\* cycle of the loop, after the cycle's poll and whatever the poll returned;
\* it is never called in single-shot mode.
C17_HeartbeatOncePerCycle ==
  /\ (cmd = "run" /\ pc = "sleep") => hb_calls = 1
  /\ cmd # "run" => hb_calls = 0

\* The attempt whose page work just ended scanned the rows and got no value.
ScannedWithoutValue == pc = "finally" /\ ret = None /\ last_error = "notfound"

\* An attempt that failed is logged as failed and followed by the next index
\* of the retry loop; while indices are left the loop starts another attempt
\* (an external interrupt aside).
FailedAttemptIsRetried ==
  /\ [][(pc = "finally" /\ ret = None /\ ~interrupted')
          => /\ fetch_log' = Append(fetch_log, "fail")
             /\ attempt' = attempt + 1
             /\ pc' = "attempt"]_vars
  /\ [][(pc = "attempt" /\ attempt < retry_count /\ ~interrupted')
          => pc' = "launch"]_vars

\* C18: an extraction attempt writes the debug page dump exactly when it
\* finished scanning the rows without obtaining a value; that attempt is
\* reported as failed and the retry loop goes on to the next attempt; an
\* attempt that ends by a timeout or another fetch error counts as failed too
\* and is retried.
C18_DumpWritten ==
  /\ [](pc = "finally" => (dump = "written" <=> ScannedWithoutValue))
  /\ FailedAttemptIsRetried

\* C18 as amended: the attempt tries to write the dump exactly when it
\* finished scanning the rows without a value; the write is best effort, a
\* failure of it is caught and the attempt ends the same way.  Every failed
\* attempt, by no value, timeout or error, is followed by the next attempt.
C18_DumpTried ==
  /\ [](pc = "finally" => (dump \in {"written", "failed"} <=> ScannedWithoutValue))
  /\ FailedAttemptIsRetried

\* The second attempt scanned the rows without a value and its dump could
\* not be written.
C18_Witness ==
  /\ ScannedWithoutValue
  /\ dump = "failed"
  /\ attempt = 1
  /\ fetch_log = <<"fail">>

\* C19: a failed poll, check_and_notify returning false, changes no field of
\* the monitor but consecutive_failures: through its extraction and its
\* decision last_state_above_threshold, last_success_time and last_heartbeat
\* stay as they were, and it sends no threshold alert.
C19_FailedPollFrame ==
  /\ [][(pc = "decide" /\ liquidity = None /\ poll' = "failed")
          => /\ last_state_above_threshold' = last_state_above_threshold
             /\ last_success_time' = last_success_time
             /\ last_heartbeat' = last_heartbeat
             /\ consecutive_failures' = consecutive_failures + 1
             /\ CountIn(sent', "threshold") = CountIn(sent, "threshold")]_vars
  /\ [][(pc \in {"check", "attempt", "launch", "page", "finally"})
          => /\ last_state_above_threshold' = last_state_above_threshold
             /\ last_success_time' = last_success_time
             /\ last_heartbeat' = last_heartbeat
             /\ CountIn(sent', "threshold") = CountIn(sent, "threshold")
             /\ Len(sent') = Len(sent)]_vars
  /\ [](poll = "failed" => CountIn(sent, "threshold") = 0)

\* A poll has failed after an earlier poll recorded a reading above the
\* threshold: the recorded state, the time of that success and the heartbeat
\* baseline are still there.
C19_Witness ==
  /\ poll = "failed"
  /\ pc = "heartbeat"
  /\ consecutive_failures = 1
  /\ last_state_above_threshold = "True"
  /\ last_success_time # None
  /\ last_success_time < now
  /\ last_heartbeat # None

\* C20: with notify_on_change_only = true at most one threshold-alert send
\* is made per maximal run of polls that read a value above the threshold;
\* failed polls inside the run do not break it (above, failed, above sends
\* one alert), and the result of the delivery does not matter: the state is
\* recorded as above when the send is made, so an alert whose delivery failed
\* is not sent again while the reading stays above.
C20_OneAlertPerRun ==
  /\ [](notify_on_change_only => above_run.alerts <= 1)
  /\ [](above_run.alerts = 1 => last_state_above_threshold = "True")
  /\ [][(notify_on_change_only /\ above_run.alerts = 1 /\ above_run' # NoRun)
          => CountIn(sent', "threshold") <= CountIn(sent, "threshold")]_vars

\* Above with an alert that was not delivered, then a failed poll, then above
\* again: the last poll has returned and has sent no alert.
C20_Witness ==
  /\ notify_on_change_only
  /\ above_run = [alerts |-> 1, undelivered |-> TRUE, failed |-> TRUE]
  /\ poll = "succeeded"
  /\ pc = "heartbeat"
  /\ liquidity > liquidity_threshold
  /\ CountIn(sent, "threshold") = 0
====
